---- MODULE Spec2Model ----
(***************************************************************************)
(* FlatSource (pro_scan.py): recursive scan of a directory tree, selection *)
(* of files by extension, and copy into one flat destination directory     *)
(* with a rewritten extension and a prepended header.                      *)
(*                                                                         *)
(* Strings are sequences of one-character strings, so that lower(),        *)
(* strip(), endswith(), os.path.splitext() and fnmatch() are computed      *)
(* character by character.  A directory is a node of a fixed tree shape;   *)
(* node 0 is the scan root and OutNode is a directory outside the root.    *)
(***************************************************************************)
EXTENDS Integers, Sequences, FiniteSets, TLC

\* ---------------------------------------------------------------- bounds
NDirs == 2
MaxExcludes == 1
MaxFiles == 2
MaxIn == 3
MaxOut == 2

\* --------------------------------------------------------- string helpers
Upper == <<"J", "S", "T", "X">>
LowerOf == <<"j", "s", "t", "x">>

\* str.lower(), one character
LowerChar(c) ==
    IF \E i \in 1..Len(Upper) : Upper[i] = c
    THEN LowerOf[CHOOSE i \in 1..Len(Upper) : Upper[i] = c]
    ELSE c

\* str.lower()
Lower(s) == [i \in 1..Len(s) |-> LowerChar(s[i])]

RECURSIVE LStrip(_)
LStrip(s) == IF Len(s) > 0 /\ s[1] = " " THEN LStrip(Tail(s)) ELSE s

RECURSIVE RStrip(_)
RStrip(s) ==
    IF Len(s) > 0 /\ s[Len(s)] = " " THEN RStrip(SubSeq(s, 1, Len(s) - 1)) ELSE s

\* str.strip()
Strip(s) == RStrip(LStrip(s))

\* str.startswith / str.endswith
StartsWith(s, p) == Len(p) <= Len(s) /\ SubSeq(s, 1, Len(p)) = p
EndsWith(s, p) == Len(p) <= Len(s) /\ SubSeq(s, Len(s) - Len(p) + 1, Len(s)) = p

\* str(counter) for a non-negative integer
Digits == <<"0", "1", "2", "3", "4", "5", "6", "7", "8", "9">>
RECURSIVE IntToStr(_)
IntToStr(n) ==
    IF n < 10 THEN <<Digits[n + 1]>>
    ELSE IntToStr(n \div 10) \o <<Digits[(n % 10) + 1]>>

\* dict assignment  m[k] = v
Put(m, k, v) == [x \in (DOMAIN m) \cup {k} |-> IF x = k THEN v ELSE m[x]]

\* all sequences over S of length lo..hi
SeqsOf(S, lo, hi) == UNION {[1..n -> S] : n \in lo..hi}

\* ------------------------------------------------------ normalize_ext
normalize_ext(ext) ==
    LET e == Lower(Strip(ext))
    IN  IF StartsWith(e, <<".">>) THEN e ELSE <<".">> \o e

\* ------------------------------------------------- create_extension_mapping
default_fallback == <<".", "t", "x", "t">>

RECURSIVE MapAllTo(_, _, _)
MapAllTo(normalized_in, target, mapping) ==
    IF normalized_in = <<>> THEN mapping
    ELSE MapAllTo(Tail(normalized_in), target,
                  Put(mapping, Head(normalized_in), target))

\* the enumerate loop of Scenario 2, from index i (0-based) on
RECURSIVE MapByIndex(_, _, _, _)
MapByIndex(normalized_in, normalized_out, i, mapping) ==
    IF i >= Len(normalized_in) THEN mapping
    ELSE MapByIndex(normalized_in, normalized_out, i + 1,
            Put(mapping, normalized_in[i + 1],
                IF i < Len(normalized_out) THEN normalized_out[i + 1]
                ELSE default_fallback))

\* a plausible slip: Scenario 1 is dropped, so a single output extension is
\* paired with the first input only
create_extension_mapping_NoSingle(in_e, out_e) ==
    LET normalized_in == [i \in 1..Len(in_e) |-> normalize_ext(in_e[i])]
        normalized_out == [i \in 1..Len(out_e) |-> normalize_ext(out_e[i])]
    IN  MapByIndex(normalized_in, normalized_out, 0, <<>>)

create_extension_mapping(in_e, out_e) ==
    LET normalized_in == [i \in 1..Len(in_e) |-> normalize_ext(in_e[i])]
        normalized_out == [i \in 1..Len(out_e) |-> normalize_ext(out_e[i])]
    IN  IF Len(normalized_out) = 1
        THEN MapAllTo(normalized_in, normalized_out[1], <<>>)
        ELSE MapByIndex(normalized_in, normalized_out, 0, <<>>)

\* ---------------------------------------------------------- fnmatch.fnmatch
\* shell-style match of a whole name: "*" any run of characters, "?" any
\* one character, anything else itself (POSIX normcase is the identity)
RECURSIVE fnmatch(_, _)
fnmatch(name, pat) ==
    IF pat = <<>> THEN name = <<>>
    ELSE IF Head(pat) = "*"
         THEN fnmatch(name, Tail(pat))
              \/ (name # <<>> /\ fnmatch(Tail(name), pat))
    ELSE IF name = <<>> THEN FALSE
    ELSE (Head(pat) = "?" \/ Head(pat) = Head(name))
         /\ fnmatch(Tail(name), Tail(pat))

\* a plausible slip: the match result is dropped and nothing is excluded
check_exclusions_Never(dirname, exclude_patterns) == FALSE

check_exclusions(dirname, exclude_patterns) ==
    \E i \in 1..Len(exclude_patterns) : fnmatch(dirname, exclude_patterns[i])

\* ---------------------------------------------------------- os.path.splitext
\* index of the last "." of p, 0 when there is none
LastDot(p) ==
    IF \E i \in 1..Len(p) : p[i] = "."
    THEN CHOOSE i \in 1..Len(p) : p[i] = "." /\ \A j \in (i + 1)..Len(p) : p[j] # "."
    ELSE 0

\* leading dots of a file name are not an extension separator
splitext(p) ==
    LET d == LastDot(p)
    IN  IF d > 0 /\ \E i \in 1..(d - 1) : p[i] # "."
        THEN [root |-> SubSeq(p, 1, d - 1), ext |-> SubSeq(p, d, Len(p))]
        ELSE [root |-> p, ext |-> <<>>]

\* ------------------------------------------------------- get_header_comment
HashStyle ==
    { <<".","p","y">>, <<".","r","b">>, <<".","s","h">>,
      <<".","y","a","m","l">>, <<".","y","m","l">>, <<".","c","o","n","f">>,
      <<".","t","o","m","l">>, <<".","p","l">>,
      <<".","d","o","c","k","e","r","f","i","l","e">> }
DoubleSlashStyle ==
    { <<".","c">>, <<".","c","p","p">>, <<".","c","s">>,
      <<".","j","a","v","a">>, <<".","j","s">>, <<".","j","s","x">>,
      <<".","t","s">>, <<".","t","s","x">>, <<".","s","o","l">>,
      <<".","g","o">>, <<".","r","s">>, <<".","p","h","p">>,
      <<".","s","w","i","f","t">>, <<".","d","a","r","t">>,
      <<".","t","x","t">>, <<".","c","s","s">>, <<".","s","c","s","s">> }
DashStyle ==
    { <<".","s","q","l">>, <<".","l","u","a">>, <<".","h","s">> }
MarkupStyle ==
    { <<".","h","t","m","l">>, <<".","x","m","l">>, <<".","h","t","m">>,
      <<".","s","v","g">>, <<".","e","j","s">>, <<".","v","u","e">>,
      <<".","j","s","p">> }

\* one header line; the wall-clock timestamp is kept as the token "now"
get_header_comment(extension, relative_path) ==
    LET ext == normalize_ext(extension)
        prefix == IF ext \in HashStyle THEN "# "
                  ELSE IF ext \in DoubleSlashStyle THEN "// "
                  ELSE IF ext \in DashStyle THEN "-- "
                  ELSE IF ext \in MarkupStyle THEN "<!-- "
                  ELSE ":: "
        header == <<prefix, "ORIGINAL_PATH: ">> \o relative_path
                    \o <<" | ARCHIVED: ", "now">>
    IN  IF prefix = "<!-- " THEN header \o <<" -->">> ELSE header

\* ------------------------------------------------------- the directory tree
\* node 0 is root_dir, nodes 1..NDirs are directories below it, OutNode is a
\* directory that is not below the root
OutNode == NDirs + 1
TreeNodes == 0..NDirs
AllDirs == 0..OutNode
Parent(n) == n \div 2
Children(n) == {c \in 1..NDirs : Parent(c) = n}

\* the directories from just below the root down to n
RECURSIVE Chain(_)
Chain(n) == IF n = 0 THEN <<>> ELSE Chain(Parent(n)) \o <<n>>

\* every ordering of a finite set, as sequences
Orderings(S) ==
    {q \in [1..Cardinality(S) -> S] : \A x \in S : \E i \in DOMAIN q : q[i] = x}

VARIABLES
    in_exts, out_exts, excludes, dry_run, dest_dir,   \* run configuration
    root_name, dir_name,                              \* names of the directories
    tqdm_available,                                   \* whether "from tqdm import tqdm" succeeded
    dirExists, files,                                 \* the filesystem
    pc, exit_code, exit_at,                           \* phase, process exit code, source line of the exit
    ext_map, total_files, files_processed,            \* locals of run_scan_and_move
    started, walk_stack, cur_dir, cur_files,          \* the os.walk generator and the inner for loop
    fs0, dirs0,                                       \* the filesystem before the run
    counted, yielded, reads, last_write, io_error     \* history of the run

config == <<in_exts, out_exts, excludes, dry_run, dest_dir, root_name,
            dir_name, tqdm_available, fs0, dirs0>>
vars == <<in_exts, out_exts, excludes, dry_run, dest_dir, root_name, dir_name,
          tqdm_available, dirExists, files, pc, exit_code, exit_at, ext_map,
          total_files, files_processed, started, walk_stack, cur_dir,
          cur_files, fs0, dirs0, counted, yielded, reads, last_write, io_error>>

Running == 0 - 1
NoLine == 0 - 1
NoWrite == [src |-> <<>>, base |-> <<>>, ext |-> <<>>, name |-> <<>>]

\* os.path.exists(os.path.join(d, name))
PathExists(d, name) ==
    \/ name \in DOMAIN files[d]
    \/ \E c \in Children(d) : dirExists[c] /\ dir_name[c] = name

\* os.path.relpath(source_full_path, root_dir), as characters
RECURSIVE JoinDirs(_)
JoinDirs(chain) ==
    IF chain = <<>> THEN <<>>
    ELSE dir_name[Head(chain)] \o <<"/">> \o JoinDirs(Tail(chain))
RelPath(n, filename) == JoinDirs(Chain(n)) \o filename

\* ------------------------------------------------------- count_total_files
\* the pruning loop over dirs: the sub-directories that stay in the list
Pruned(n) ==
    {c \in Children(n) : dirExists[c] /\ ~check_exclusions(dir_name[c], excludes)}

\* any(filename.lower().endswith(ext) for ext in target_exts)
CountMatch(filename, target_exts) ==
    \E ext \in target_exts : EndsWith(Lower(filename), ext)

\* the (directory, file name) pairs the pre-scan counts, from directory n down
RECURSIVE CountedFrom(_)
CountedFrom(n) ==
    {<<n, f>> : f \in {g \in DOMAIN files[n] : CountMatch(g, DOMAIN ext_map)}}
    \cup UNION {CountedFrom(c) : c \in Pruned(n)}

count_total_files == Cardinality(CountedFrom(0))

\* --------------------------------------------------------------- Step 1
\* ext_map = create_extension_mapping(in_exts, out_exts)
Configure ==
    /\ pc = "Configuring"
    /\ ext_map' = create_extension_mapping(in_exts, out_exts)
    /\ pc' = "Validating"
    /\ UNCHANGED <<config, dirExists, files, exit_code, exit_at, total_files,
                   files_processed, started, walk_stack, cur_dir, cur_files,
                   counted, yielded, reads, last_write, io_error>>

\* --------------------------------------------------------------- Step 3
Abort(line) == pc' = "Aborted" /\ exit_code' = 1 /\ exit_at' = line

\* os.makedirs(d): d and every missing ancestor of d
makedirs(d) ==
    [n \in AllDirs |->
        dirExists[n] \/ n = d
        \/ (d \in TreeNodes /\ (n = 0 \/ \E i \in 1..Len(Chain(d)) : Chain(d)[i] = n))]

\* a plausible slip: the destination is created before the root is tested
Validate_DestFirst ==
    /\ pc = "Validating"
    /\ dirExists' = IF ~dry_run /\ ~dirExists[dest_dir]
                    THEN makedirs(dest_dir) ELSE dirExists
    /\ IF ~dirExists[0]
       THEN Abort(151)
       ELSE pc' = "Counting" /\ UNCHANGED <<exit_code, exit_at>>
    /\ UNCHANGED <<config, files, ext_map, total_files, files_processed,
                   started, walk_stack, cur_dir, cur_files, counted, yielded,
                   reads, last_write, io_error>>

Validate ==
    /\ pc = "Validating"
    /\ IF ~dirExists[0]
       THEN Abort(151) /\ UNCHANGED dirExists
       ELSE IF ~dry_run /\ ~dirExists[dest_dir]
       THEN \/ /\ dirExists' = makedirs(dest_dir)
               /\ pc' = "Counting"
               /\ UNCHANGED <<exit_code, exit_at>>
            \/ Abort(159) /\ UNCHANGED dirExists        \* OSError
       ELSE pc' = "Counting" /\ UNCHANGED <<dirExists, exit_code, exit_at>>
    /\ UNCHANGED <<config, files, ext_map, total_files, files_processed,
                   started, walk_stack, cur_dir, cur_files, counted, yielded,
                   reads, last_write, io_error>>

\* --------------------------------------------------------------- Step 4
PreScan ==
    /\ pc = "Counting"
    /\ total_files' = count_total_files
    /\ counted' = CountedFrom(0)
    /\ IF count_total_files = 0
       THEN pc' = "Done" /\ exit_code' = 0 /\ exit_at' = 167
       ELSE pc' = "Processing" /\ UNCHANGED <<exit_code, exit_at>>
    /\ UNCHANGED <<config, dirExists, files, ext_map, files_processed,
                   started, walk_stack, cur_dir, cur_files, yielded, reads,
                   last_write, io_error>>

\* --------------------------------------------------------------- Step 5
\* "with tqdm(total=total_files, unit='file') as pbar": the fallback
\* tqdm(iterable, total=None, unit="") has a required positional parameter,
\* so the call raises TypeError when the library is absent
ProgressCallable == tqdm_available

\* files_processed = 0, the with statement and the call of os.walk
EnterLoop ==
    /\ pc = "Processing"
    /\ ~started
    /\ files_processed' = 0
    /\ IF ProgressCallable
       THEN /\ started' = TRUE
            /\ walk_stack' = <<0>>
            /\ UNCHANGED <<pc, exit_code, exit_at>>
       ELSE /\ Abort(174)                              \* uncaught TypeError
            /\ UNCHANGED <<started, walk_stack>>
    /\ UNCHANGED <<config, dirExists, files, ext_map, total_files, cur_dir,
                   cur_files, counted, yielded, reads, last_write, io_error>>

\* one step of os.walk and the pruning loop: the next directory is listed
\* (the file names are a snapshot taken now) and its unpruned
\* sub-directories are stacked for later, in the order the listing gave.
\* No directory is created or removed during the loop, so stacking them at
\* the listing and stacking them when the generator resumes are the same.
WalkNext ==
    /\ pc = "Processing"
    /\ started
    /\ cur_files = {}
    /\ walk_stack # <<>>
    /\ LET top == walk_stack[Len(walk_stack)]
       IN  /\ cur_dir' = top
           /\ cur_files' = DOMAIN files[top]
           /\ \E q \in Orderings(Pruned(top)) :
                 walk_stack' = SubSeq(walk_stack, 1, Len(walk_stack) - 1) \o q
    /\ UNCHANGED <<config, dirExists, files, pc, exit_code, exit_at, ext_map,
                   total_files, files_processed, started, counted, yielded,
                   reads, last_write, io_error>>

\* _, f_ext = os.path.splitext(filename); f_ext.lower() in ext_map
InMap(filename) == Lower(splitext(filename).ext) \in DOMAIN ext_map

target_ext_of(filename) == ext_map[Lower(splitext(filename).ext)]

\* a file whose extension is not a key of the mapping
SkipFile ==
    /\ pc = "Processing"
    /\ started
    /\ \E filename \in cur_files :
          /\ ~InMap(filename)
          /\ cur_files' = cur_files \ {filename}
    /\ UNCHANGED <<config, dirExists, files, pc, exit_code, exit_at, ext_map,
                   total_files, files_processed, started, walk_stack, cur_dir,
                   counted, yielded, reads, last_write, io_error>>

\* --- DRY RUN ---
DryRunFile ==
    /\ pc = "Processing"
    /\ started
    /\ dry_run
    /\ \E filename \in cur_files :
          /\ InMap(filename)
          /\ cur_files' = cur_files \ {filename}
          /\ yielded' = yielded \cup {<<cur_dir, filename>>}
    /\ files_processed' = files_processed + 1
    /\ UNCHANGED <<config, dirExists, files, pc, exit_code, exit_at, ext_map,
                   total_files, started, walk_stack, cur_dir, counted, reads,
                   last_write, io_error>>

\* a plausible slip: the collision check is left out
ResolveName_NoCheck(base_name, target_ext, dest_name, counter) == dest_name

\* a plausible slip: "if" in place of "while", the suffixed name is not tested
ResolveName_Once(base_name, target_ext, dest_name, counter) ==
    IF PathExists(dest_dir, dest_name)
    THEN base_name \o <<"_">> \o IntToStr(counter) \o target_ext
    ELSE dest_name

\* C. Collision Check: the while loop, entered with dest_name and counter
RECURSIVE ResolveName(_, _, _, _)
ResolveName(base_name, target_ext, dest_name, counter) ==
    IF PathExists(dest_dir, dest_name)
    THEN ResolveName(base_name, target_ext,
                     base_name \o <<"_">> \o IntToStr(counter) \o target_ext,
                     counter + 1)
    ELSE dest_name

\* B and C: the name the copy of filename is written under
DestName(filename) ==
    LET base_name == splitext(filename).root
        target_ext == target_ext_of(filename)
    IN  ResolveName(base_name, target_ext, base_name \o target_ext, 1)

\* E. what a complete write leaves in the file: header, blank line, content
Written(filename) ==
    <<get_header_comment(target_ext_of(filename), RelPath(cur_dir, filename)),
      <<>>>> \o files[cur_dir][filename]

WriteRecord(filename) ==
    [src |-> <<cur_dir, filename>>, base |-> splitext(filename).root,
     ext |-> target_ext_of(filename), name |-> DestName(filename)]

\* --- LIVE RUN ---, no exception
CopyFile ==
    /\ pc = "Processing"
    /\ started
    /\ ~dry_run
    /\ \E filename \in cur_files :
          /\ InMap(filename)
          /\ cur_files' = cur_files \ {filename}
          /\ yielded' = yielded \cup {<<cur_dir, filename>>}
          /\ reads' = reads \cup {<<cur_dir, filename>>}
          /\ files' = [files EXCEPT ![dest_dir] =
                          Put(@, DestName(filename), Written(filename))]
          /\ last_write' = WriteRecord(filename)
    /\ files_processed' = files_processed + 1
    /\ UNCHANGED <<config, dirExists, pc, exit_code, exit_at, ext_map,
                   total_files, started, walk_stack, cur_dir, counted,
                   io_error>>

\* a plausible slip: the handler reports the file and goes on with the next
OnException_Continue(filename) ==
    /\ io_error' = TRUE
    /\ cur_files' = cur_files \ {filename}
    /\ UNCHANGED <<pc, exit_code, exit_at>>

\* except Exception: report and sys.exit(1)
OnException(filename) ==
    /\ io_error' = TRUE
    /\ Abort(231)
    /\ UNCHANGED cur_files

\* --- LIVE RUN ---, an exception: in A (the source cannot be opened or
\* read), in the open of E (no file is created), or in one of the two writes
\* of E (the file exists, empty or with the header and the blank line only)
FailFile ==
    /\ pc = "Processing"
    /\ started
    /\ ~dry_run
    /\ \E filename \in cur_files :
          /\ InMap(filename)
          /\ yielded' = yielded \cup {<<cur_dir, filename>>}
          /\ \/ UNCHANGED <<reads, files, last_write>>
             \/ /\ reads' = reads \cup {<<cur_dir, filename>>}
                /\ UNCHANGED <<files, last_write>>
             \/ /\ reads' = reads \cup {<<cur_dir, filename>>}
                /\ \E n \in {0, 2} :
                      files' = [files EXCEPT ![dest_dir] =
                                  Put(@, DestName(filename),
                                      SubSeq(Written(filename), 1, n))]
                /\ last_write' = WriteRecord(filename)
          /\ OnException(filename)
    /\ UNCHANGED <<config, dirExists, ext_map, total_files, files_processed,
                   started, walk_stack, cur_dir, counted>>

\* the summary after the loop
Finish ==
    /\ pc = "Processing"
    /\ started
    /\ cur_files = {}
    /\ walk_stack = <<>>
    /\ pc' = "Done"
    /\ exit_code' = 0
    /\ exit_at' = 234
    /\ UNCHANGED <<config, dirExists, files, ext_map, total_files,
                   files_processed, started, walk_stack, cur_dir, cur_files,
                   counted, yielded, reads, last_write, io_error>>

\* ------------------------------------------------------------ initial states
n_dot == <<".">>
n_lib == <<"l", "i", "b">>
n_sub == <<"s", "u", "b">>
RootNames == {n_dot, n_lib}
DirNameOf(n) == IF n % 2 = 1 THEN n_lib ELSE n_sub
Patterns == {<<"l", "*">>}

f_a_JS == <<"a", ".", "J", "S">>
f_dot_js == <<".", "j", "s">>
f_a_txt == <<"a", ".", "t", "x", "t">>
f_a_1_txt == <<"a", "_", "1", ".", "t", "x", "t">>
FileNames == {f_a_JS, f_dot_js, f_a_txt}

t_js == <<"j", "s">>
t_JS == <<".", "J", "S">>
t_txt == <<"t", "x", "t">>
t_css == <<"c", "s", "s">>
Tokens == {t_js, t_JS, t_txt, t_css}
ExtConfigs ==
    { [in |-> <<t_js>>, out |-> <<t_txt>>],
      [in |-> <<t_JS, t_txt>>, out |-> <<t_txt>>] }

OrigContent == << <<"source text">> >>
OldContent == << <<"earlier output">> >>

Placements ==
    {P \in SUBSET (TreeNodes \X FileNames) : Cardinality(P) <= MaxFiles}
OutContents == {{}, {f_a_txt, f_a_1_txt}}

InitLocals ==
    /\ pc = "Configuring"
    /\ exit_code = Running
    /\ exit_at = NoLine
    /\ ext_map = <<>>
    /\ total_files = 0
    /\ files_processed = 0
    /\ started = FALSE
    /\ walk_stack = <<>>
    /\ cur_dir = 0
    /\ cur_files = {}
    /\ counted = {}
    /\ yielded = {}
    /\ reads = {}
    /\ last_write = NoWrite
    /\ io_error = FALSE
    /\ fs0 = files
    /\ dirs0 = dirExists

Init ==
    /\ \E c \in ExtConfigs : in_exts = c.in /\ out_exts = c.out
    /\ excludes \in SeqsOf(Patterns, 0, MaxExcludes)
    /\ dry_run \in BOOLEAN
    /\ tqdm_available \in BOOLEAN
    /\ root_name \in RootNames
    /\ dir_name = [n \in 1..NDirs |-> DirNameOf(n)]
    /\ \E rootExists \in BOOLEAN, P \in Placements, d \in AllDirs,
          destExists \in BOOLEAN, pre \in OutContents :
          /\ ~rootExists => P = {} /\ d \in {NDirs, OutNode}
          /\ d \in TreeNodes /\ ~rootExists => ~destExists
          /\ d \in TreeNodes /\ rootExists /\ ~destExists =>
                d = NDirs /\ d # 0 /\ \A f \in FileNames : <<d, f>> \notin P
          /\ d # OutNode \/ ~destExists => pre = {}
          /\ dest_dir = d
          /\ dirExists = [n \in AllDirs |->
                            IF n = OutNode THEN d = OutNode /\ destExists
                            ELSE rootExists /\ (n # d \/ destExists)]
          /\ files = [n \in AllDirs |->
                        IF n = OutNode THEN [f \in pre |-> OldContent]
                        ELSE [f \in {g \in FileNames : <<n, g>> \in P}
                                |-> OrigContent]]
    /\ InitLocals

Next ==
    \/ Configure
    \/ Validate
    \/ PreScan
    \/ EnterLoop
    \/ WalkNext
    \/ SkipFile
    \/ DryRunFile
    \/ CopyFile
    \/ FailFile
    \/ Finish

Spec == Init /\ [][Next]_vars

\* create_extension_mapping alone, on every pair of short token lists
InitMap ==
    /\ in_exts \in SeqsOf(Tokens, 0, MaxIn)
    /\ out_exts \in SeqsOf(Tokens, 0, MaxOut)
    /\ excludes = <<>>
    /\ dry_run = TRUE
    /\ tqdm_available = TRUE
    /\ root_name = n_dot
    /\ dir_name = [n \in 1..NDirs |-> DirNameOf(n)]
    /\ dest_dir = OutNode
    /\ dirExists = [n \in AllDirs |-> FALSE]
    /\ files = [n \in AllDirs |-> <<>>]
    /\ InitLocals

NextMap == Configure

SpecMap == InitMap /\ [][NextMap]_vars

\* ======================================================================
\* Properties
\* ======================================================================
Terminal == pc \in {"Done", "Aborted"}

\* files of directory d that the run created
NewIn(d) == (DOMAIN files[d]) \ (DOMAIN fs0[d])

\* a directory name glob-matches one of the exclude patterns
Matches(name) == \E i \in 1..Len(excludes) : fnmatch(name, excludes[i])

\* the k-th name of the collision sequence base+ext, base_1+ext, base_2+ext
Candidate(w, k) ==
    IF k = 0 THEN w.base \o w.ext
    ELSE w.base \o <<"_">> \o IntToStr(k) \o w.ext

\* C1: in live mode every write goes to a path that did not exist in the
\* destination just before the write, and the path is the first free name of
\* the sequence base+ext, base_1+ext, base_2+ext, ...; no file that exists,
\* in the destination or anywhere else, is changed by a write.
C1_FirstFreeName ==
    [][ files' # files =>
          LET w == last_write'
              taken == Cardinality(DOMAIN files[dest_dir]) + Cardinality(Children(dest_dir))
              k0 == CHOOSE k \in 0..taken :
                        /\ ~PathExists(dest_dir, Candidate(w, k))
                        /\ \A j \in 0..(k - 1) : PathExists(dest_dir, Candidate(w, j))
          IN  /\ w.name = Candidate(w, k0)
              /\ ~PathExists(dest_dir, w.name)
              /\ DOMAIN files'[dest_dir] = (DOMAIN files[dest_dir]) \cup {w.name}
              /\ \A d \in AllDirs : \A f \in DOMAIN files[d] :
                    f \in DOMAIN files'[d] /\ files'[d][f] = files[d][f]
      ]_vars

\* two sources that both map to a.txt were written to an initially empty
\* destination as a.txt and a_1.txt
C1_Witness ==
    /\ ~dry_run /\ pc = "Done"
    /\ DOMAIN fs0[dest_dir] = {}
    /\ NewIn(dest_dir) = {f_a_txt, f_a_1_txt}
    /\ Cardinality(reads) = 2

\* C2: in live mode the first exception while reading or writing a candidate
\* aborts the run at once with exit code 1: the files already in the
\* destination keep their content, and after the failure nothing is read or
\* written and Done is never reached.
C2_FailFast ==
    [][ /\ (io_error' /\ ~io_error) =>
              /\ pc' = "Aborted" /\ exit_code' = 1
              /\ files_processed' = files_processed
              /\ \A d \in AllDirs : \A f \in DOMAIN files[d] :
                    f \in DOMAIN files'[d] /\ files'[d][f] = files[d][f]
        /\ io_error =>
              /\ pc = "Aborted" /\ pc' = "Aborted" /\ exit_code' = 1
              /\ reads' = reads /\ files' = files
              /\ files_processed' = files_processed
      ]_vars

\* one file was copied, then the next one failed; the copy is still there
C2_Witness ==
    /\ io_error /\ pc = "Aborted" /\ exit_code = 1
    /\ files_processed = 1
    /\ Cardinality(yielded) = 2
    /\ \E f \in NewIn(dest_dir) : Len(files[dest_dir][f]) = 3

\* C3: when the root directory does not exist the run ends in Validating
\* with exit code 1, in dry-run and in live mode, and nothing has happened:
\* no directory created, no pass started, no file read or written.
C3_MissingRoot ==
    ~dirs0[0] =>
        /\ pc \in {"Configuring", "Validating", "Aborted"}
        /\ pc = "Aborted" => exit_code = 1 /\ exit_at = 151
        /\ dirExists = dirs0
        /\ files = fs0
        /\ ~started /\ total_files = 0 /\ files_processed = 0
        /\ counted = {} /\ yielded = {} /\ reads = {}

\* a live run with a missing root and a missing destination has aborted
C3_Witness ==
    /\ ~dirs0[0] /\ ~dry_run /\ ~dirs0[dest_dir]
    /\ pc = "Aborted" /\ exit_code = 1

\* C4 (as stated): a dry run leaves the filesystem as it was (no directory
\* created, no file created or changed, no source read) and, with N matching
\* files in the tree, ends in Done reporting N/N processed.
C4_Original ==
    dry_run =>
        /\ dirExists = dirs0
        /\ files = fs0
        /\ reads = {}
        /\ pc = "Done" =>
              /\ files_processed = total_files
              /\ files_processed = Cardinality(counted)

\* C5 (as stated): in neither pass does the walker count or yield a file
\* whose path has a component that is a directory name matching an exclude
\* pattern; the path of a candidate is os.path.join(current_root, filename),
\* which starts with root_dir.
C5_Original ==
    \A c \in counted \cup yielded :
        /\ ~Matches(root_name)
        /\ \A i \in 1..Len(Chain(c[1])) : ~Matches(dir_name[Chain(c[1])[i]])

\* C5 (amended): in neither pass does the walker count or yield a file that
\* lies, at any depth, below a sub-directory of the root whose name matches
\* an exclude pattern; the root directory itself is never tested.
C5_BelowRoot ==
    \A c \in counted \cup yielded :
        \A i \in 1..Len(Chain(c[1])) : ~Matches(dir_name[Chain(c[1])[i]])

\* a directory right below the root is excluded, a file with a mapped
\* extension lies in a directory below it, and both passes are over
C5_Witness ==
    /\ pc = "Done" /\ exit_at = 234
    /\ yielded # {}
    /\ \E n \in 1..NDirs :
          /\ Len(Chain(n)) >= 2
          /\ Matches(dir_name[Chain(n)[1]])
          /\ ~Matches(dir_name[n])
          /\ f_a_JS \in DOMAIN fs0[n]
          /\ <<n, f_a_JS>> \notin counted

\* the output extension the claim gives the input at index i (1-based)
ExpectedOut(i) ==
    IF Len(out_exts) = 1 THEN normalize_ext(out_exts[1])
    ELSE IF i <= Len(out_exts) THEN normalize_ext(out_exts[i])
    ELSE <<".", "t", "x", "t">>

\* C6 (as stated): the keys of the mapping are the normalized inputs, and
\* every input index i maps to the single output, or to the output at index
\* i, or to .txt when the outputs have run out.
C6_Original ==
    pc # "Configuring" =>
        /\ DOMAIN ext_map = {normalize_ext(in_exts[i]) : i \in 1..Len(in_exts)}
        /\ \A i \in 1..Len(in_exts) :
              ext_map[normalize_ext(in_exts[i])] = ExpectedOut(i)

\* C6 (amended): the keys of the mapping are the normalized inputs, and that
\* holds for every input index i that is the last one with its normalized
\* extension (where two inputs normalize to the same key the later wins).
C6_LastWins ==
    pc # "Configuring" =>
        /\ DOMAIN ext_map = {normalize_ext(in_exts[i]) : i \in 1..Len(in_exts)}
        /\ \A i \in 1..Len(in_exts) :
              (\A j \in (i + 1)..Len(in_exts) :
                    normalize_ext(in_exts[j]) # normalize_ext(in_exts[i]))
              => ext_map[normalize_ext(in_exts[i])] = ExpectedOut(i)

\* three inputs with two outputs, the first two inputs the same key: the
\* second output is the one the key got, and the third input got .txt
C6_Witness ==
    /\ pc = "Validating"
    /\ in_exts = <<t_js, t_JS, t_css>>
    /\ out_exts = <<t_txt, t_css>>
    /\ ext_map[<<".", "j", "s">>] = <<".", "c", "s", "s">>
    /\ ext_map[<<".", "c", "s", "s">>] = <<".", "t", "x", "t">>

\* the directories the walker enters: those with no excluded name below the
\* root on the way to them
Visible(n) ==
    /\ dirs0[n]
    /\ \A i \in 1..Len(Chain(n)) : ~Matches(dir_name[Chain(n)[i]])

\* the file name ends, case-insensitively, with a mapped input extension
SuffixMapped(f) ==
    \E i \in 1..Len(in_exts) : EndsWith(Lower(f), normalize_ext(in_exts[i]))

\* C7 (as stated): when a live run is Done, every file of a non-excluded
\* directory under the root whose name ends, case-insensitively, with a
\* mapped input extension has been read and copied into the destination,
\* and the other files have been skipped.
C7_Original ==
    (pc = "Done" /\ ~dry_run) =>
        \A n \in TreeNodes : \A f \in DOMAIN fs0[n] :
            Visible(n) =>
                IF SuffixMapped(f)
                THEN /\ <<n, f>> \in reads
                     /\ \E g \in NewIn(dest_dir) :
                           files[dest_dir][g] =
                               <<files[dest_dir][g][1], <<>>>> \o fs0[n][f]
                ELSE <<n, f>> \notin reads

\* C8 (as stated): the run with the fallback in place of the progress-bar
\* library ends as the run with the library does: it aborts only where that
\* run aborts too, that is on a missing root, on a destination that cannot
\* be created, or on an exception while a file is processed.
C8_Original ==
    (~tqdm_available /\ pc = "Aborted") =>
        \/ ~dirs0[0]
        \/ ~dry_run /\ ~dirs0[dest_dir] /\ ~dirExists[dest_dir]
        \/ io_error

\* C9: after any run every file that was under the root is still there with
\* its content, also when the destination is the root or lies inside it;
\* every file the run created is a direct child of the destination, and no
\* directory was created inside the destination.
C9_SourcesKept ==
    /\ \A n \in TreeNodes : \A f \in DOMAIN fs0[n] :
          f \in DOMAIN files[n] /\ files[n][f] = fs0[n][f]
    /\ \A d \in AllDirs : d # dest_dir => DOMAIN files[d] = DOMAIN fs0[d]
    /\ \A n \in 1..NDirs :
          (n # dest_dir /\ \E i \in 1..Len(Chain(n)) : Chain(n)[i] = dest_dir)
          => dirExists[n] = dirs0[n]
    /\ dest_dir = 0 => dirExists = dirs0

\* a live run whose destination is the root itself copied a.txt of the root
\* next to it
C9_Witness ==
    /\ ~dry_run /\ Terminal
    /\ dest_dir = 0
    /\ f_a_txt \in DOMAIN fs0[0]
    /\ <<0, f_a_txt>> \in reads
    /\ f_a_1_txt \in NewIn(0)

\* C10 (as stated): with nothing but the run changing the tree, the two
\* passes select the same files: the processed counter never exceeds the
\* total during Processing and equals it in Done.
C10_Original ==
    /\ pc = "Processing" => files_processed <= total_files
    /\ pc = "Done" => files_processed = total_files

====
